---- MODULE Spec2Model ----
(***************************************************************************)
(* Momentum Timer (src/momentum_timer.py): two Streamlit scripts that      *)
(* download a price panel, rank the instruments by trailing-window         *)
(* momentum, chart the cumulative growth of the top of the ranking and,    *)
(* in the second script, submit bracket orders for it.                     *)
(*                                                                         *)
(* Numbers.  Python floats are modelled by exact rationals <<num, den>>    *)
(* in lowest terms with den > 0; NaN is <<0, 0>>.  Prices are positive,    *)
(* so no division by zero arises.  Rounding error of binary floating       *)
(* point is outside the model.                                             *)
(*                                                                         *)
(* Frames.  A pandas DataFrame is [columns |-> sequence of symbols,        *)
(* rows |-> sequence of rows], a row being a sequence of numbers aligned   *)
(* with the columns; the time index is the row position.  A pandas Series  *)
(* is a sequence of [sym, val] records.                                    *)
(***************************************************************************)
EXTENDS Integers, Sequences, FiniteSets, TLC

VARIABLES
    pc,               \* position of the running script
    error,            \* uncaught exception that ended the script, or "none"
    tie,              \* how the build's default (unstable) sort orders equal keys
    feed,             \* the market data provider's answer for this run
    months_momentum,  \* script 1 slider
    tickers_list,     \* script 1 parsed ticker input
    historical_data,  \* script 1 panel returned by get_momentum_data
    momentum_data,    \* script 1 ranked series
    top_performers,   \* script 1 head(3) of the ranking
    message,          \* script 1 message shown to the user
    lookback_days,    \* script 2 slider
    display_count,    \* script 2 slider
    data,             \* script 2 panel
    momentum,         \* script 2 calculate_momentum(data, lookback_days)
    latest_momentum,  \* script 2 ranked series
    momentum_df,      \* script 2 table of percentages
    top_etfs,         \* script 2 symbols of the top display_count
    cum_returns,      \* script 2 cumulative growth of the top ETFs
    selected_etfs,    \* script 2 screener multiselect
    latest_selected,  \* script 2 ranking of the screener selection
    cum_selected,     \* script 2 cumulative growth of the selection
    trading_enabled,  \* script 2 live trading: checkbox ticked and both keys given
    current_prices,   \* script 2 live trading: latest price per top ETF
    etf_i,            \* script 2 live trading: position of the order loop
    orders            \* script 2 live trading: orders accepted by the broker

vars == <<pc, error, tie, feed, months_momentum, tickers_list, historical_data,
          momentum_data, top_performers, message, lookback_days, display_count,
          data, momentum, latest_momentum, momentum_df, top_etfs, cum_returns,
          selected_etfs, latest_selected, cum_selected, trading_enabled,
          current_prices, etf_i, orders>>

----------------------------------------------------------------------------
(* Bounds of the model. *)

\* script 1: months_momentum ranges over 1..MaxMonths (the slider allows 12)
MaxMonths == 1
\* script 2: lookback_days ranges over 5..MaxLookback (the slider allows 90)
MaxLookback == 6
\* direct application of the computations: panels of at most MaxFnRows rows
MaxFnRows == 3

(* Program constants. *)

\* line 87: days_in_period = months_momentum * 21
TradingDaysPerMonth == 21
\* line 54: slider min_value=1, max_value=12
MonthsSliderMin == 1
MonthsSliderMax == 12
\* line 105: momentum_data.head(3)
TopPerformersCount == 3
\* line 152: slider("Lookback Period (Days)", 5, 90, 21)
LookbackSliderMin == 5
LookbackSliderMax == 90
\* line 153: slider("Top N Assets to Display", 5, 20, 10)
DisplaySliderMin == 5
DisplaySliderMax == 20
\* line 220: allocation = 10000
allocation == 10000

\* lines 143-148
etfs == << "SPY", "QQQ", "IWM", "DIA", "EFA",
           "EEM", "VNQ", "GLD", "SLV", "DBC",
           "XLK", "XLF", "XLE", "XLV", "XLY",
           "XLI", "XLB", "XLU", "TLT", "IEF" >>

\* line 57: the default ticker text, parsed
DefaultTickers == << "AAPL", "GOOG", "MSFT", "TSLA" >>

----------------------------------------------------------------------------
(* Exact arithmetic standing for Python floats. *)

NaN == <<0, 0>>
One == <<1, 1>>

IsNaN(x) == x[2] = 0
Finite(x) == x[2] # 0

Abs(n) == IF n < 0 THEN -n ELSE n
Min(a, b) == IF a < b THEN a ELSE b

RECURSIVE GCD(_, _)
GCD(a, b) == IF b = 0 THEN a ELSE GCD(b, a % b)

\* n/d in lowest terms, d # 0
Norm(n, d) ==
    LET s == IF d < 0 THEN -1 ELSE 1
        g == GCD(Abs(n), Abs(d))
    IN  << (s * n) \div g, (s * d) \div g >>

Whole(n) == <<n, 1>>

RAdd(a, b) == IF IsNaN(a) \/ IsNaN(b) THEN NaN
              ELSE Norm(a[1] * b[2] + b[1] * a[2], a[2] * b[2])
RMul(a, b) == IF IsNaN(a) \/ IsNaN(b) THEN NaN
              ELSE Norm(a[1] * b[1], a[2] * b[2])
\* the divisor is a price, never zero
RDiv(a, b) == IF IsNaN(a) \/ IsNaN(b) \/ b[1] = 0 THEN NaN
              ELSE Norm(a[1] * b[2], a[2] * b[1])
RLess(a, b) == a[1] * b[2] < b[1] * a[2]

\* Python int(x) of a float: truncation toward zero; int(nan) raises
IntOf(x) == IF x[1] >= 0 THEN x[1] \div x[2] ELSE -((-x[1]) \div x[2])

----------------------------------------------------------------------------
(* pandas operations used by the scripts. *)

\* pd.DataFrame()
EmptyFrame == [columns |-> <<>>, rows |-> <<>>]

NRows(df) == Len(df.rows)
NCols(df) == Len(df.columns)

\* DataFrame.empty: any axis of length 0
IsEmpty(df) == NCols(df) = 0 \/ NRows(df) = 0

\* DataFrame.dropna(): drop every row holding a NaN
DropNa(df) ==
    [columns |-> df.columns,
     rows |-> SelectSeq(df.rows, LAMBDA r : \A j \in 1..Len(r) : Finite(r[j]))]

\* faulty variant of Shift: a window one period too long
Shift_OnePeriodMore(df, periods) ==
    [columns |-> df.columns,
     rows |-> [i \in 1..NRows(df) |->
                 IF i <= periods + 1
                 THEN [j \in 1..NCols(df) |-> NaN]
                 ELSE df.rows[i - periods - 1]]]

\* DataFrame.shift(periods): row i takes row i - periods, the first rows NaN
Shift(df, periods) ==
    [columns |-> df.columns,
     rows |-> [i \in 1..NRows(df) |->
                 IF i <= periods
                 THEN [j \in 1..NCols(df) |-> NaN]
                 ELSE df.rows[i - periods]]]

\* a / b, element by element, of two frames of one shape
FrameDiv(a, b) ==
    [columns |-> a.columns,
     rows |-> [i \in 1..NRows(a) |->
                 [j \in 1..NCols(a) |-> RDiv(a.rows[i][j], b.rows[i][j])]]]

\* df + k, element by element
FrameAddInt(df, k) ==
    [columns |-> df.columns,
     rows |-> [i \in 1..NRows(df) |->
                 [j \in 1..NCols(df) |-> RAdd(df.rows[i][j], Whole(k))]]]

\* faulty variant of pct_change: the price ratio, the "- 1" forgotten
pct_change_Ratio(df, periods) == FrameDiv(df, Shift(df, periods))

\* DataFrame.pct_change(periods) on a frame without NaN:
\* data / data.shift(periods) - 1, every row kept
pct_change(df, periods) == FrameAddInt(FrameDiv(df, Shift(df, periods)), -1)

\* DataFrame.cumprod(): running product down each column
RECURSIVE CumRows(_, _)
CumRows(rows, i) ==
    IF i = 0 THEN <<>>
    ELSE IF i = 1 THEN << rows[1] >>
    ELSE LET prev == CumRows(rows, i - 1)
         IN  Append(prev, [j \in 1..Len(rows[i]) |-> RMul(prev[i - 1][j], rows[i][j])])

\* faulty variant of cumprod: the running sum, as cumsum
RECURSIVE SumRows(_, _)
SumRows(rows, i) ==
    IF i = 0 THEN <<>>
    ELSE IF i = 1 THEN << rows[1] >>
    ELSE LET prev == SumRows(rows, i - 1)
         IN  Append(prev, [j \in 1..Len(rows[i]) |-> RAdd(prev[i - 1][j], rows[i][j])])

cumprod_AsCumsum(df) == [columns |-> df.columns, rows |-> SumRows(df.rows, NRows(df))]

cumprod(df) == [columns |-> df.columns, rows |-> CumRows(df.rows, NRows(df))]

\* position of a symbol among the columns
ColOf(columns, sym) == CHOOSE j \in 1..Len(columns) : columns[j] = sym

\* df[symbols]: the frame restricted to the symbols, in their order
Project(df, symbols) ==
    [columns |-> symbols,
     rows |-> [i \in 1..NRows(df) |->
                 [j \in 1..Len(symbols) |-> df.rows[i][ColOf(df.columns, symbols[j])]]]]

\* df.iloc[-1] of a frame with at least one row: the last row as a Series
iloc_last(df) ==
    [j \in 1..NCols(df) |-> [sym |-> df.columns[j], val |-> df.rows[NRows(df)][j]]]

\* Series.sort_values(ascending=False), default kind='quicksort' and
\* na_position='last'.  Element i precedes element j in the result when its
\* value is greater; NaN go last in their original order.  The default kind is
\* not a stable sort: what it does with equal values depends on the build, and
\* the rule t stands for the build's choice, "stable" keeping equal values in
\* their original order and "reversed" reversing them.
Precedes(s, i, j, t) ==
    LET a == s[i].val
        b == s[j].val
    IN  IF IsNaN(a) THEN IsNaN(b) /\ i < j
        ELSE IF IsNaN(b) THEN TRUE
        ELSE \/ RLess(b, a)
             \/ a = b /\ (IF t = "stable" THEN i < j ELSE i > j)

RankOf(s, i, t) == Cardinality({j \in 1..Len(s) : j # i /\ Precedes(s, j, i, t)}) + 1

\* faulty variant of sort_values: ascending order
sort_values_Ascending(s, t) ==
    [r \in 1..Len(s) |-> s[CHOOSE i \in 1..Len(s) : RankOf(s, i, t) = Len(s) + 1 - r]]

sort_values(s, t) ==
    [r \in 1..Len(s) |-> s[CHOOSE i \in 1..Len(s) : RankOf(s, i, t) = r]]

\* faulty variant of head: one element short
head_OneShort(s, n) == SubSeq(s, 1, Min(n, Len(s)) - 1)

\* Series.head(n) / DataFrame.head(n) for n >= 0
head(s, n) == SubSeq(s, 1, Min(n, Len(s)))

\* Series.index
IndexOf(s) == [i \in 1..Len(s) |-> s[i].sym]

----------------------------------------------------------------------------
(* The market data provider.  A price history is a start price and a       *)
(* constant daily step; an instrument listed "late" has no price on the    *)
(* first day of the window and one listed "never" has none at all.         *)

Flat == [base |-> 100, step |-> 0, listed |-> "always"]
Up == [base |-> 100, step |-> 2, listed |-> "always"]
\* half the prices of Up: other prices, the same ratios
Half == [base |-> 50, step |-> 1, listed |-> "always"]
Down == [base |-> 100, step |-> -1, listed |-> "always"]
Late == [base |-> 100, step |-> 1, listed |-> "late"]
Dead == [base |-> 100, step |-> 0, listed |-> "never"]

\* the histories of the instruments of a universe: the pattern repeats along it
Patterns == { <<Flat>>, <<Up>>, <<Down>>, <<Up, Half>>, <<Flat, Up>>,
              <<Up, Flat, Down>>, <<Down, Flat, Up>>, <<Late, Up>>, <<Up, Dead>> }

\* what the provider answers: the histories, the days in the requested period,
\* and whether the answer carries an 'Adj Close' column at all
Feeds(maxRows) == [pattern : Patterns, nrows : 0..maxRows, adj_close : BOOLEAN]

PriceOn(g, day) ==
    IF g.listed = "never" \/ (g.listed = "late" /\ day = 1) THEN NaN
    ELSE Whole(g.base + g.step * (day - 1))

HistoryOf(universe, sym, fd) ==
    fd.pattern[((ColOf(universe, sym) - 1) % Len(fd.pattern)) + 1]

\* yf.download(symbols, period=...)['Adj Close'] when the column exists
AdjClose(universe, symbols, fd) ==
    [columns |-> symbols,
     rows |-> [i \in 1..fd.nrows |->
                 [j \in 1..Len(symbols) |-> PriceOn(HistoryOf(universe, symbols[j], fd), i)]]]

----------------------------------------------------------------------------
(* Script 1 (lines 1-124). *)

\* lines 12-47.  Without an 'Adj Close' column data['Adj Close'] raises KeyError,
\* which line 42 catches: st.error and an empty DataFrame.
get_momentum_data(tickers, fd) ==
    IF ~fd.adj_close THEN EmptyFrame
    ELSE DropNa(AdjClose(DefaultTickers, tickers, fd))

\* line 87
days_in_period(months) == months * TradingDaysPerMonth

\* line 92: historical_data.pct_change(days).iloc[-1].sort_values(ascending=False)
Script1Momentum(df, days, t) == sort_values(iloc_last(pct_change(df, days)), t)

\* line 105
TopPerformers(ranking) == head(ranking, TopPerformersCount)

\* lines 85-124: what the handler does with the panel it fetched
Script1Analysis(hd, days, t) ==
    IF IsEmpty(hd)
    THEN [message |-> "none", momentum_data |-> <<>>, top_performers |-> <<>>]
    ELSE IF NRows(hd) >= days
    THEN LET md == Script1Momentum(hd, days, t)
         IN  [message |-> "success: top performing stocks",
              momentum_data |-> md,
              top_performers |-> TopPerformers(md)]
    ELSE [message |-> "warning: not enough historical data",
          momentum_data |-> <<>>, top_performers |-> <<>>]

\* lines 68-124: the handler of the "Run Momentum Analysis" button
RunMomentumAnalysis ==
    /\ pc = "s1_ready"
    /\ pc' = "s1_done"
    /\ IF tickers_list = <<>>
       THEN /\ message' = "warning: enter valid ticker symbols"
            /\ UNCHANGED <<historical_data, momentum_data, top_performers>>
       ELSE LET hd == get_momentum_data(tickers_list, feed)
                res == Script1Analysis(hd, days_in_period(months_momentum), tie)
            IN  /\ historical_data' = hd
                /\ momentum_data' = res.momentum_data
                /\ top_performers' = res.top_performers
                \* line 44: st.error inside get_momentum_data
                /\ message' = IF ~feed.adj_close THEN "error: fetching data"
                              ELSE res.message
    /\ UNCHANGED <<error, tie, feed, months_momentum, tickers_list, lookback_days,
                   display_count, data, momentum, latest_momentum, momentum_df,
                   top_etfs, cum_returns, selected_etfs, latest_selected,
                   cum_selected, trading_enabled, current_prices, etf_i, orders>>

----------------------------------------------------------------------------
(* Script 2 (lines 127-262). *)

\* lines 173-174
calculate_momentum(df, lookback) ==
    DropNa(FrameAddInt(FrameDiv(df, Shift(df, lookback)), -1))

\* line 177 / line 208, the frame having a row
LatestMomentum(m, t) == sort_values(iloc_last(m), t)

\* lines 179-182: latest_momentum.values * 100
MomentumTable(ranking) ==
    [i \in 1..Len(ranking) |->
       [ETF |-> ranking[i].sym, pct |-> RMul(ranking[i].val, Whole(100))]]

\* line 194
TopEtfs(ranking, n) == IndexOf(head(ranking, n))

\* lines 195-196 / line 211: (1 + df[symbols].pct_change().dropna()).cumprod()
Backtest(df, symbols) ==
    cumprod(FrameAddInt(DropNa(pct_change(Project(df, symbols), 1)), 1))

\* lines 169-170: no try/except around the download
S2_Fetch ==
    /\ pc = "s2_fetch"
    /\ IF ~feed.adj_close
       THEN /\ error' = "KeyError"
            /\ pc' = "crashed"
            /\ UNCHANGED data
       ELSE /\ data' = DropNa(AdjClose(etfs, etfs, feed))
            /\ pc' = "s2_momentum"
            /\ UNCHANGED error
    /\ UNCHANGED <<tie, feed, months_momentum, tickers_list, historical_data,
                   momentum_data, top_performers, message, lookback_days,
                   display_count, momentum, latest_momentum, momentum_df,
                   top_etfs, cum_returns, selected_etfs, latest_selected,
                   cum_selected, trading_enabled, current_prices, etf_i, orders>>

\* lines 176-182: momentum.iloc[-1] of a frame without rows raises IndexError
S2_Momentum ==
    /\ pc = "s2_momentum"
    /\ LET m == calculate_momentum(data, lookback_days)
       IN  /\ momentum' = m
           /\ IF NRows(m) = 0
              THEN /\ error' = "IndexError"
                   /\ pc' = "crashed"
                   /\ UNCHANGED <<latest_momentum, momentum_df>>
              ELSE /\ latest_momentum' = LatestMomentum(m, tie)
                   /\ momentum_df' = MomentumTable(latest_momentum')
                   /\ pc' = "s2_backtest"
                   /\ UNCHANGED error
    /\ UNCHANGED <<tie, feed, months_momentum, tickers_list, historical_data,
                   momentum_data, top_performers, message, lookback_days,
                   display_count, data, top_etfs, cum_returns, selected_etfs,
                   latest_selected, cum_selected, trading_enabled, current_prices, etf_i, orders>>

\* lines 185-197
S2_Backtest ==
    /\ pc = "s2_backtest"
    /\ top_etfs' = TopEtfs(latest_momentum, display_count)
    /\ cum_returns' = Backtest(data, top_etfs')
    /\ pc' = "s2_screener"
    /\ UNCHANGED <<error, tie, feed, months_momentum, tickers_list, historical_data,
                   momentum_data, top_performers, message, lookback_days,
                   display_count, data, momentum, latest_momentum, momentum_df,
                   selected_etfs, latest_selected, cum_selected, trading_enabled,
                   current_prices, etf_i, orders>>

\* line 202: what the user may have picked: nothing, the default etfs[:10],
\* every ETF, or a few from the middle of the list
Selections == { <<>>, SubSeq(etfs, 1, 10), etfs, SubSeq(etfs, 2, 4) }

\* lines 199-211: the screener downloads the selection again
S2_Screener ==
    /\ pc = "s2_screener"
    /\ \E sel \in Selections :
         /\ selected_etfs' = sel
         /\ IF sel = <<>>
            THEN /\ pc' = "s2_trading"
                 /\ UNCHANGED <<error, latest_selected, cum_selected>>
            ELSE LET data_selected == DropNa(AdjClose(etfs, sel, feed))
                     momentum_selected == calculate_momentum(data_selected, lookback_days)
                 IN  IF NRows(momentum_selected) = 0
                     THEN /\ error' = "IndexError"
                          /\ pc' = "crashed"
                          /\ UNCHANGED <<latest_selected, cum_selected>>
                     ELSE /\ latest_selected' = LatestMomentum(momentum_selected, tie)
                          /\ cum_selected' = Backtest(data_selected, sel)
                          /\ pc' = "s2_trading"
                          /\ UNCHANGED error
    /\ UNCHANGED <<tie, feed, months_momentum, tickers_list, historical_data,
                   momentum_data, top_performers, message, lookback_days,
                   display_count, data, momentum, latest_momentum, momentum_df,
                   top_etfs, cum_returns, trading_enabled, current_prices, etf_i,
                   orders>>

----------------------------------------------------------------------------
(* The two scripts, each run once on what the user set and the provider    *)
(* answers.                                                                *)

TieRules == {"stable", "reversed"}

Unset ==
    /\ error = "none"
    /\ historical_data = EmptyFrame
    /\ momentum_data = <<>>
    /\ top_performers = <<>>
    /\ message = "none"
    /\ data = EmptyFrame
    /\ momentum = EmptyFrame
    /\ latest_momentum = <<>>
    /\ momentum_df = <<>>
    /\ top_etfs = <<>>
    /\ cum_returns = EmptyFrame
    /\ selected_etfs = <<>>
    /\ latest_selected = <<>>
    /\ cum_selected = EmptyFrame
    /\ trading_enabled = FALSE
    /\ current_prices = <<>>
    /\ etf_i = 0
    /\ orders = <<>>

\* script 1 before the button is pressed
Init1 ==
    /\ pc = "s1_ready"
    /\ tie \in TieRules
    /\ months_momentum \in MonthsSliderMin..Min(MonthsSliderMax, MaxMonths)
    /\ \E k \in 0..Len(DefaultTickers) : tickers_list = SubSeq(DefaultTickers, 1, k)
    /\ feed \in Feeds(MaxMonths * TradingDaysPerMonth + 2)
    /\ lookback_days = 0
    /\ display_count = 0
    /\ Unset

\* script 2 after the sidebar is read (lines 150-166)
Init2 ==
    /\ pc = "s2_fetch"
    /\ tie \in TieRules
    /\ lookback_days \in LookbackSliderMin..Min(LookbackSliderMax, MaxLookback)
    /\ display_count \in DisplaySliderMin..DisplaySliderMax
    /\ feed \in Feeds(MaxLookback + 2)
    /\ months_momentum = 0
    /\ tickers_list = <<>>
    /\ Unset

Init == Init1 \/ Init2

Next ==
    \/ RunMomentumAnalysis
    \/ S2_Fetch
    \/ S2_Momentum
    \/ S2_Backtest
    \/ S2_Screener

Spec == Init /\ [][Next]_vars

----------------------------------------------------------------------------
(* The computations applied directly to a panel: the expressions of lines  *)
(* 90-105 (script 1), of lines 174-177 (script 2) and of lines 195-196     *)
(* (the backtest), each on the same panel, lookback and instrument list.   *)

FnSyms == << "A", "B" >>
FnPrices == {100, 110, 121}

\* every panel of 1..Len(FnSyms) instruments and 0..MaxFnRows days over FnPrices
FnPanelsOf(k, r) ==
    { [columns |-> SubSeq(FnSyms, 1, k), rows |-> rws] :
        rws \in [1..r -> [1..k -> {Whole(p) : p \in FnPrices}]] }

FnPanels == UNION { FnPanelsOf(k, r) : k \in 1..Len(FnSyms), r \in 0..MaxFnRows }

\* lines 85-105 on the panel, days_in_period being the lookback
Fn_Script1 ==
    /\ pc = "fn_script1"
    /\ LET res == Script1Analysis(historical_data, lookback_days, tie)
       IN  /\ momentum_data' = res.momentum_data
           /\ top_performers' = res.top_performers
           /\ message' = res.message
    /\ pc' = "fn_script2"
    /\ UNCHANGED <<error, tie, feed, months_momentum, tickers_list, historical_data,
                   lookback_days, display_count, data, momentum, latest_momentum,
                   momentum_df, top_etfs, cum_returns, selected_etfs,
                   latest_selected, cum_selected, trading_enabled, current_prices,
                   etf_i, orders>>

\* lines 176-182 on the panel
Fn_Script2 ==
    /\ pc = "fn_script2"
    /\ LET m == calculate_momentum(data, lookback_days)
       IN  /\ momentum' = m
           /\ IF NRows(m) = 0
              THEN /\ error' = "IndexError"
                   /\ UNCHANGED <<latest_momentum, momentum_df>>
              ELSE /\ latest_momentum' = LatestMomentum(m, tie)
                   /\ momentum_df' = MomentumTable(latest_momentum')
                   /\ UNCHANGED error
    /\ pc' = "fn_backtest"
    /\ UNCHANGED <<tie, feed, months_momentum, tickers_list, historical_data,
                   momentum_data, top_performers, message, lookback_days,
                   display_count, data, top_etfs, cum_returns, selected_etfs,
                   latest_selected, cum_selected, trading_enabled, current_prices,
                   etf_i, orders>>

\* lines 195-196 on the panel, for the first display_count of its instruments
Fn_Backtest ==
    /\ pc = "fn_backtest"
    /\ top_etfs' = head(data.columns, display_count)
    /\ cum_returns' = Backtest(data, top_etfs')
    /\ pc' = "fn_done"
    /\ UNCHANGED <<error, tie, feed, months_momentum, tickers_list, historical_data,
                   momentum_data, top_performers, message, lookback_days,
                   display_count, data, momentum, latest_momentum, momentum_df,
                   selected_etfs, latest_selected, cum_selected, trading_enabled,
                   current_prices, etf_i, orders>>

InitFn ==
    /\ pc = "fn_script1"
    /\ tie \in TieRules
    /\ lookback_days \in 1..MaxFnRows
    /\ display_count \in 1..Len(FnSyms)
    /\ data \in FnPanels
    /\ historical_data = data
    /\ feed = [pattern |-> <<Flat>>, nrows |-> 0, adj_close |-> TRUE]
    /\ months_momentum = 0
    /\ tickers_list = <<>>
    /\ error = "none"
    /\ momentum_data = <<>>
    /\ top_performers = <<>>
    /\ message = "none"
    /\ momentum = EmptyFrame
    /\ latest_momentum = <<>>
    /\ momentum_df = <<>>
    /\ top_etfs = <<>>
    /\ cum_returns = EmptyFrame
    /\ selected_etfs = <<>>
    /\ latest_selected = <<>>
    /\ cum_selected = EmptyFrame
    /\ trading_enabled = FALSE
    /\ current_prices = <<>>
    /\ etf_i = 0
    /\ orders = <<>>

NextFn ==
    \/ Fn_Script1
    \/ Fn_Script2
    \/ Fn_Backtest

SpecFn == InitFn /\ [][NextFn]_vars

----------------------------------------------------------------------------
(* Script 2, the live trading section (lines 213-259), from the state the  *)
(* script is in when it reaches line 214.                                  *)

\* faulty variant of per_trade: the whole allocation for every slot
per_trade_Undivided(n) == Whole(allocation)

\* line 221
per_trade(n) == RDiv(Whole(allocation), Whole(n))

\* line 225: int(per_trade / current_prices[etf])
Shares(n, price) == IntOf(RDiv(per_trade(n), price))

\* the latest prices in cents: a first price and a step along the etfs list;
\* an instrument without a latest price has NaN
Quotes ==
    { [cents |-> 1, step |-> 0, missing |-> 0],
      [cents |-> 50000, step |-> 0, missing |-> 0],
      [cents |-> 49999, step |-> 0, missing |-> 0],
      [cents |-> 12345, step |-> 6789, missing |-> 0],
      [cents |-> 30000, step |-> 10000, missing |-> 0],
      [cents |-> 250000, step |-> 0, missing |-> 0],
      [cents |-> 2500, step |-> 100, missing |-> 3] }

QuoteOf(q, sym) ==
    LET k == ColOf(etfs, sym)
    IN  IF k = q.missing THEN NaN ELSE Norm(q.cents + q.step * (k - 1), 100)

\* line 222: yf.download(list(top_etfs), period="1d")['Adj Close'].iloc[-1]
CurrentPrices(symbols, q) ==
    [i \in 1..Len(symbols) |-> [sym |-> symbols[i], val |-> QuoteOf(q, symbols[i])]]

PriceOf(prices, sym) ==
    prices[CHOOSE i \in 1..Len(prices) : prices[i].sym = sym].val

\* lines 214-222; an exception of the download is caught at line 258
T_Connect ==
    /\ pc = "s2_trading"
    /\ IF ~trading_enabled
       THEN /\ pc' = "s2_done"
            /\ UNCHANGED <<message, current_prices, etf_i>>
       ELSE IF ~feed.adj_close
       THEN /\ message' = "Trading error"
            /\ pc' = "s2_done"
            /\ UNCHANGED <<current_prices, etf_i>>
       ELSE /\ current_prices' = CurrentPrices(top_etfs, feed.quote)
            /\ etf_i' = 1
            /\ message' = "Connected to Alpaca Paper Trading"
            /\ pc' = "s2_orders"
    /\ UNCHANGED <<error, tie, feed, months_momentum, tickers_list, historical_data,
                   momentum_data, top_performers, lookback_days, display_count,
                   data, momentum, latest_momentum, momentum_df, top_etfs,
                   cum_returns, selected_etfs, latest_selected, cum_selected,
                   trading_enabled, orders>>

\* lines 224-237, one pass of the loop: int() of NaN raises ValueError and the
\* broker may refuse an order; line 258 catches both and the loop is over
T_Order ==
    /\ pc = "s2_orders"
    /\ etf_i <= Len(top_etfs)
    /\ LET etf == top_etfs[etf_i]
           price == PriceOf(current_prices, etf)
       IN  IF IsNaN(price)
           THEN /\ message' = "Trading error"
                /\ pc' = "s2_done"
                /\ UNCHANGED <<etf_i, orders>>
           ELSE LET shares == Shares(display_count, price)
                IN  IF shares > 0
                    THEN \E accepted \in BOOLEAN :
                           IF accepted
                           THEN /\ orders' = Append(orders,
                                        [symbol |-> etf, qty |-> shares, price |-> price])
                                /\ etf_i' = etf_i + 1
                                /\ UNCHANGED <<message, pc>>
                           ELSE /\ message' = "Trading error"
                                /\ pc' = "s2_done"
                                /\ UNCHANGED <<etf_i, orders>>
                    ELSE /\ etf_i' = etf_i + 1
                         /\ UNCHANGED <<message, pc, orders>>
    /\ UNCHANGED <<error, tie, feed, months_momentum, tickers_list, historical_data,
                   momentum_data, top_performers, lookback_days, display_count,
                   data, momentum, latest_momentum, momentum_df, top_etfs,
                   cum_returns, selected_etfs, latest_selected, cum_selected,
                   trading_enabled, current_prices>>

\* lines 239-256: the loop is over, the quote stream starts on its own thread
T_Stream ==
    /\ pc = "s2_orders"
    /\ etf_i > Len(top_etfs)
    /\ message' = "Real-Time Streaming Quotes"
    /\ pc' = "s2_done"
    /\ UNCHANGED <<error, tie, feed, months_momentum, tickers_list, historical_data,
                   momentum_data, top_performers, lookback_days, display_count,
                   data, momentum, latest_momentum, momentum_df, top_etfs,
                   cum_returns, selected_etfs, latest_selected, cum_selected,
                   trading_enabled, current_prices, etf_i, orders>>

\* the index of latest_momentum: the ETFs in some order
Rankings == { etfs, [i \in 1..Len(etfs) |-> etfs[Len(etfs) + 1 - i]] }

InitTrade ==
    /\ pc = "s2_trading"
    /\ tie \in TieRules
    /\ display_count \in DisplaySliderMin..DisplaySliderMax
    /\ \E ranking \in Rankings : top_etfs = head(ranking, display_count)
    /\ trading_enabled \in BOOLEAN
    /\ \E q \in Quotes, adj \in BOOLEAN : feed = [quote |-> q, adj_close |-> adj]
    /\ lookback_days = LookbackSliderMin
    /\ months_momentum = 0
    /\ tickers_list = <<>>
    /\ error = "none"
    /\ historical_data = EmptyFrame
    /\ momentum_data = <<>>
    /\ top_performers = <<>>
    /\ message = "none"
    /\ data = EmptyFrame
    /\ momentum = EmptyFrame
    /\ latest_momentum = <<>>
    /\ momentum_df = <<>>
    /\ cum_returns = EmptyFrame
    /\ selected_etfs = <<>>
    /\ latest_selected = <<>>
    /\ cum_selected = EmptyFrame
    /\ current_prices = <<>>
    /\ etf_i = 0
    /\ orders = <<>>

NextTrade ==
    \/ T_Connect
    \/ T_Order
    \/ T_Stream

SpecTrade == InitTrade /\ [][NextTrade]_vars

----------------------------------------------------------------------------
(* Properties. *)

\* the sequence holds no symbol twice
NoDuplicates(syms) ==
    \A i, j \in 1..Len(syms) : syms[i] = syms[j] => i = j

\* v = last / base - 1, by cross-multiplication
IsWindowReturn(v, last, base) ==
    /\ Finite(v)
    /\ v[1] * (last[2] * base[1]) = (last[1] * base[2] - base[1] * last[2]) * v[2]

\* every instrument of the panel has a record whose score is the return from
\* the row L periods before the last row to the last row
RankingIsWindowReturn(series, df, L) ==
    \A j \in 1..NCols(df) :
        \E i \in 1..Len(series) :
            /\ series[i].sym = df.columns[j]
            /\ IsWindowReturn(series[i].val, df.rows[NRows(df)][j],
                              df.rows[NRows(df) - L][j])

\* C2: on a rectangular panel of at least lookback + 1 rows, the score of every
\* instrument, in script 2's ranking and in script 1's, is
\* (price in the last row / price lookback rows earlier) - 1.
C2_MomentumIsWindowReturn ==
    (pc \in {"fn_backtest", "fn_done"} /\ NRows(data) >= lookback_days + 1) =>
        /\ RankingIsWindowReturn(latest_momentum, data, lookback_days)
        /\ RankingIsWindowReturn(momentum_data, historical_data, lookback_days)

\* the panel A = [100, 110, 121], B = [100, 100, 100] with lookback 2 ranks
\* A at 0.21 before B at 0.0
C2_Scenario ==
    /\ pc = "fn_done"
    /\ lookback_days = 2
    /\ data = [columns |-> <<"A", "B">>,
               rows |-> << <<Whole(100), Whole(100)>>,
                           <<Whole(110), Whole(100)>>,
                           <<Whole(121), Whole(100)>> >>]
    /\ latest_momentum = << [sym |-> "A", val |-> <<21, 100>>],
                            [sym |-> "B", val |-> <<0, 1>>] >>
    /\ momentum_data = latest_momentum

\* the ranking lists every instrument of the panel once, each with a finite
\* score, in non-increasing order of score
IsFullRanking(series, df) ==
    /\ Len(series) = NCols(df)
    /\ NoDuplicates(IndexOf(series))
    /\ \A j \in 1..NCols(df) : \E i \in 1..Len(series) : series[i].sym = df.columns[j]
    /\ \A i \in 1..Len(series) : Finite(series[i].val)
    /\ \A i \in 1..Len(series) - 1 : ~RLess(series[i].val, series[i + 1].val)

\* script 2 has ranked the panel
Ranked2 == pc \in {"s2_backtest", "s2_screener", "s2_trading"}

\* script 2 has taken the top of the ranking
Selected2 == pc \in {"s2_screener", "s2_trading"}

\* C5: on a panel of N >= lookback + 1 rows and k instruments the ranking has
\* exactly k records, one per instrument, every score finite, scores
\* non-increasing; in script 2 and in script 1.
C5_RankingComplete ==
    /\ (Ranked2 /\ NRows(data) >= lookback_days + 1) =>
           IsFullRanking(latest_momentum, data)
    /\ (pc = "s1_done" /\ tickers_list # <<>>
          /\ NRows(historical_data) >= days_in_period(months_momentum) + 1) =>
           IsFullRanking(momentum_data, historical_data)

\* script 2 ranked twenty ETFs whose scores are not all equal
C5_Ranked ==
    /\ Ranked2
    /\ NRows(data) >= lookback_days + 1
    /\ Len(latest_momentum) = Len(etfs)
    /\ RLess(latest_momentum[Len(etfs)].val, latest_momentum[1].val)

\* top is the first min(n, Len(ranking)) symbols of the ranking, in its order
IsTopOf(top, ranking, n) ==
    /\ Len(top) = Min(n, Len(ranking))
    /\ \A i \in 1..Len(top) : top[i] = ranking[i].sym

\* C6: the top-N selection returns exactly min(n, len(table)) instruments, the
\* first ones of the table in its order, and n above the table length is
\* clamped without an error; head(display_count) in script 2 and head(3) in
\* script 1.
C6_TopNIsPrefix ==
    /\ Selected2 =>
           /\ IsTopOf(top_etfs, latest_momentum, display_count)
           /\ error = "none"
    /\ (pc = "s1_done" /\ momentum_data # <<>>) =>
           /\ IsTopOf(IndexOf(top_performers), momentum_data, TopPerformersCount)
           /\ \A i \in 1..Len(top_performers) : top_performers[i] = momentum_data[i]
           /\ error = "none"

\* script 1 ranked two tickers and head(3) returned both
C6_Clamped ==
    /\ pc = "s1_done"
    /\ Len(momentum_data) = 2
    /\ Len(top_performers) = 2
    /\ TopPerformersCount > Len(momentum_data)

\* the cumulative growth of the backtest has one row per return; its first row
\* is 1 + the first daily change, price[2] / price[1], and every later row is
\* the row before times 1 + that day's change, price[i + 1] / price[i]
IsRunningProduct(cum, df, symbols) ==
    /\ cum.columns = symbols
    /\ NRows(cum) = (IF NRows(df) = 0 THEN 0 ELSE NRows(df) - 1)
    /\ \A j \in 1..Len(symbols) :
         LET c == ColOf(df.columns, symbols[j])
         IN  \A i \in 1..NRows(cum) :
               LET g == cum.rows[i][j]
                   p == df.rows[i][c]
                   q == df.rows[i + 1][c]
               IN  /\ Finite(g)
                   /\ IF i = 1
                      THEN g[1] * (p[1] * q[2]) = g[2] * (q[1] * p[2])
                      ELSE LET h == cum.rows[i - 1][j]
                           IN  g[1] * (h[2] * p[1] * q[2]) = g[2] * (h[1] * q[1] * p[2])

\* C4 as stated: the cumulative growth series starts at 1.0 for every
\* instrument whenever at least one return exists.
C4_StartsAtOne ==
    (pc = "fn_done" /\ NRows(cum_returns) >= 1) =>
        \A j \in 1..NCols(cum_returns) : cum_returns.rows[1][j] = One

\* C4 amended: the cumulative growth series has one value per return, the
\* first being 1 + the first daily change (the seed 1.0 is not in the series)
\* and each later one the running product of (1 + daily change).
C4_RunningProduct ==
    pc = "fn_done" => IsRunningProduct(cum_returns, data, top_etfs)

\* prices [100, 110, 121] give the cumulative growth [1.10, 1.21]
C4_Scenario ==
    /\ pc = "fn_done"
    /\ data.columns = <<"A">>
    /\ data.rows = << <<Whole(100)>>, <<Whole(110)>>, <<Whole(121)>> >>
    /\ cum_returns.rows = << << <<11, 10>> >>, << <<121, 100>> >> >>

\* C10: on a rectangular panel of at least lookback + 1 rows of positive prices
\* the ranking of script 1, from the last row of pct_change(lookback), and the
\* ranking of script 2, from the last row of (df / df.shift(lookback) - 1)
\* .dropna(), hold the same scores in the same order.
C10_ScriptsAgree ==
    (pc \in {"fn_backtest", "fn_done"} /\ NRows(data) >= lookback_days + 1) =>
        /\ historical_data = data
        /\ momentum_data = latest_momentum
        /\ Len(latest_momentum) = NCols(data)

\* both scripts ranked a two-instrument panel with distinct scores, the second
\* column first
C10_BothRanked ==
    /\ pc = "fn_done"
    /\ NRows(data) >= lookback_days + 1
    /\ Len(momentum_data) = 2
    /\ momentum_data[1].sym = "B"
    /\ RLess(momentum_data[2].val, momentum_data[1].val)
    /\ latest_momentum = momentum_data

\* C1 as stated: a panel of fewer than lookback + 1 rows (exactly lookback
\* rows included) is rejected as insufficient data; no IndexError is raised
\* and no ranking, in particular no row of NaN scores, is returned.  Script 1
\* reports by its warning, script 2 would by an InsufficientDataError.
C1_InsufficientDataRejected ==
    /\ (pc = "s1_done" /\ tickers_list # <<>>
          /\ NRows(historical_data) >= 1
          /\ NRows(historical_data) < days_in_period(months_momentum) + 1) =>
           /\ momentum_data = <<>>
           /\ message = "warning: not enough historical data"
    /\ (pc \in {"s2_backtest", "s2_screener", "s2_trading", "crashed"}
          /\ NRows(data) >= 1
          /\ NRows(data) < lookback_days + 1) =>
           /\ latest_momentum = <<>>
           /\ error = "InsufficientDataError"

\* records of equal score stand in the order of their columns in the panel
TiesKeepColumnOrder(series, df) ==
    \A i, j \in 1..Len(series) :
        (i < j /\ series[i].val = series[j].val) =>
            ColOf(df.columns, series[i].sym) < ColOf(df.columns, series[j].sym)

\* C3 as stated: instruments of identical score, all scores tied included,
\* keep in the ranking the relative order of their columns in the panel.
C3_StableTies ==
    /\ Ranked2 => TiesKeepColumnOrder(latest_momentum, data)
    /\ (pc = "s1_done" /\ momentum_data # <<>>) =>
           TiesKeepColumnOrder(momentum_data, historical_data)

C8_EmptyPanelRejected ==
    /\ (pc = "s1_done" /\ tickers_list # <<>> /\ IsEmpty(historical_data)) =>
           /\ momentum_data = <<>>
           /\ error = "none"
    /\ (pc \in {"s2_momentum", "s2_backtest", "s2_screener", "s2_trading", "crashed"}
          /\ IsEmpty(data)) =>
           /\ latest_momentum = <<>>
           /\ error = "none"

\* quantity times price
Notional(o) == RMul(Whole(o.qty), o.price)

RECURSIVE TotalNotional(_)
TotalNotional(os) ==
    IF os = <<>> THEN Whole(0)
    ELSE RAdd(Notional(Head(os)), TotalNotional(Tail(os)))

\* C9: in a run of the live trading section every top ETF gets at most one
\* order, no order has quantity 0, every order's quantity times the current
\* price is at most allocation / display_count, and the notional of all the
\* orders together is at most the allocation.
C9_OrdersWithinAllocation ==
    /\ NoDuplicates([i \in 1..Len(orders) |-> orders[i].symbol])
    /\ \A i \in 1..Len(orders) :
         /\ \E k \in 1..Len(top_etfs) : top_etfs[k] = orders[i].symbol
         /\ orders[i].qty > 0
         /\ orders[i].qty * orders[i].price[1] * display_count
              <= allocation * orders[i].price[2]
    /\ ~RLess(Whole(allocation), TotalNotional(orders))

\* the order loop ran to its end, placed orders and skipped an ETF whose price
\* is above the slot
C9_LoopFinished ==
    /\ pc = "s2_done"
    /\ message = "Real-Time Streaming Quotes"
    /\ Len(orders) >= 2
    /\ Len(orders) < Len(top_etfs)

====
